---- MODULE Spec2Model ----
(***************************************************************************)
(* Prim's minimum spanning tree engine of origin/graph                     *)
(* (algorithm/spanning_tree/prim.hpp), modelled statement by statement.    *)
(*                                                                         *)
(* One invocation of prim(g, s, w) owns three labelings (pred, color, v_w) *)
(* and one weight queue q.  The graph and the edge weights are read only.  *)
(* The model keeps the locals of every running invocation in functions     *)
(* indexed by the invocation, so that two invocations on the same graph    *)
(* can be run side by side.                                                *)
(*                                                                         *)
(* The graph capability (incident_edges, opposite), the labeling and the   *)
(* weight queue live in headers that prim.hpp only includes; they are      *)
(* modelled from their documented contracts.                               *)
(*                                                                         *)
(* The second part models the range forwarders of sequence/algorithm.hpp   *)
(* (all_of, any_of, none_of, for_each, set_symmetric_difference, max,      *)
(* minmax): one call on bounded ranges.                                    *)
(***************************************************************************)
EXTENDS Naturals, FiniteSets, Sequences, TLC

(***************************************************************************)
(* Bounds of the model.                                                    *)
(***************************************************************************)
\* number of vertices of the enumerated graphs
NV == 3
\* largest number of edges of the enumerated graphs
MaxEdges == 2
\* largest length of the ranges handed to the sequence algorithms
MaxLen == 3

(***************************************************************************)
(* Constants of the program.                                               *)
(***************************************************************************)
\* max_val<Value_type<Edge_weight>>(): the largest value of the weight type
\* (a 3-bit unsigned weight type).
WMax == 7
\* nil_vertex<Vertex<G>>(): the largest value of the vertex type.
NilVertex == 255

\* enum class tri_color
tri_color == {"black", "gray", "white"}

(***************************************************************************)
(* Graphs.  A graph is a vertex count n (vertices 1..n) and a set of       *)
(* undirected weighted edges; an edge with a = b is a self-loop, two edges *)
(* with the same endpoints and different weights are parallel edges.       *)
(***************************************************************************)
Edge(x, y, wt) == [a |-> x, b |-> y, w |-> wt]

Vertices(gr) == 1..gr.n

\* incident_edges(g, u)
incident_edges(gr, x) == {e \in gr.E : e.a = x \/ e.b = x}

\* opposite(e, u)
opposite(e, x) == IF e.a = x THEN e.b ELSE e.a

\* the edge weight accessor w(e)
w(e) == e.w

\* The weights the enumerated graphs draw from: enough distinct ordinary
\* values to order MaxEdges edges in every possible way, and the largest
\* value of the weight type.
Weights == (0..(MaxEdges - 1)) \cup {WMax}

EdgeUniverse == {Edge(x, y, wt) : x \in 1..NV, y \in 1..NV, wt \in Weights}

RECURSIVE SubsetsUpTo(_, _)
SubsetsUpTo(S, k) ==
  IF k = 0 THEN {{}}
  ELSE LET P == SubsetsUpTo(S, k - 1)
       IN  P \cup {p \cup {x} : p \in P, x \in S}

\* every graph on NV vertices with at most MaxEdges edges
Graphs ==
  {[n |-> NV, E |-> es] :
     es \in SubsetsUpTo({e \in EdgeUniverse : e.a <= e.b}, MaxEdges)}

\* The scenarios of the specification's testable properties.
\* A-B(1), B-C(2), C-D(1), A-D(5), A-C(4)
Scenario1 ==
  [n |-> 4,
   E |-> {Edge(1, 2, 1), Edge(2, 3, 2), Edge(3, 4, 1),
          Edge(1, 4, 5), Edge(1, 3, 4)}]
\* two components {A,B} with A-B(1) and {C,D} with C-D(1)
Scenario2 == [n |-> 4, E |-> {Edge(1, 2, 1), Edge(3, 4, 1)}]
\* a single vertex and no edge
SingleVertex == [n |-> 1, E |-> {}]
\* a triangle with pairwise distinct weights
Triangle == [n |-> 3, E |-> {Edge(1, 2, 3), Edge(1, 3, 2), Edge(2, 3, 1)}]
\* self-loops at both ends of an edge, pairwise distinct weights
Loops == [n |-> 2, E |-> {Edge(1, 2, 2), Edge(2, 2, 1), Edge(1, 1, 4)}]
\* parallel edges and a tie
Parallel == [n |-> 3, E |-> {Edge(1, 2, 2), Edge(1, 2, 1), Edge(1, 3, 1)}]

\* a star whose leaves are joined by a lighter edge
Star ==
  [n |-> 4,
   E |-> {Edge(1, 2, 1), Edge(1, 3, 3), Edge(1, 4, 2), Edge(2, 3, 0)}]
\* a star with two leaves at the same distance
Fork == [n |-> 4, E |-> {Edge(1, 2, 1), Edge(1, 3, 1), Edge(1, 4, 2)}]

Samples ==
  {Scenario1, Scenario2, SingleVertex, Triangle, Loops, Parallel, Star, Fork}

(***************************************************************************)
(* State.                                                                  *)
(***************************************************************************)
VARIABLES
  g,      \* the graph (read only, shared by the invocations)
  src,    \* src[i]: the source s of invocation i
  pred,   \* pred[i][v]: predecessor labeling
  color,  \* color[i][v]: color labeling
  v_w,    \* v_w[i][v]: weight labeling
  q,      \* q[i]: the members of the weight queue
  qkey,   \* qkey[i][m]: the key the queue last ordered member m by
  pc,     \* pc[i]: "loop" (line 54), "scan" (line 57), "done" (line 72),
          \*        "abort" (the process died in undefined behaviour)
  u,      \* u[i]: the vertex popped in the current iteration
  rest,   \* rest[i]: incident edges of u the for loop has yet to visit
  pops,   \* pops[i]: number of q.pop() calls so far
  viol,   \* viol[i]: q.update was called for a vertex that is no member
  pushcnt, \* pushcnt[i][v]: number of q.push(v) calls so far
  popcnt,  \* popcnt[i][v]: number of times q.pop() removed v so far
  range,  \* the range handed to a sequence algorithm
  p,      \* the unary predicate: the set of values it holds for
  f,      \* the function object handed to for_each
  called, \* the sequence algorithm that has run: "none" before the call,
          \* "abort" when the process died in undefined behaviour
  ret,    \* the value all_of, any_of or none_of returned
  fret,   \* the function object for_each returned
  applied, \* the elements f was applied to, in the order of the calls
  range2, \* the second range handed to a set algorithm
  comp,   \* the comparator: the set of pairs <<a, b>> with comp(a, b)
  result, \* the elements a set algorithm wrote to result, in order
  val     \* the values max (one) or minmax (two) returned

primvars ==
  <<g, src, pred, color, v_w, q, qkey, pc, u, rest, pops, viol, pushcnt, popcnt>>

seqvars ==
  <<range, p, f, called, ret, fret, applied, range2, comp, result, val>>

vars == <<primvars, seqvars>>

\* the locals of invocation i as one record
St(i) ==
  [src |-> src[i], pred |-> pred[i], color |-> color[i], v_w |-> v_w[i],
   q |-> q[i], qkey |-> qkey[i], pc |-> pc[i], u |-> u[i],
   rest |-> rest[i], pops |-> pops[i], viol |-> viol[i],
   pushcnt |-> pushcnt[i], popcnt |-> popcnt[i]]

\* Put with the weight labeling kept in one place for all invocations, as a
\* labeling with static storage would be.
PutShared(i, st) ==
  /\ src' = [src EXCEPT ![i] = st.src]
  /\ pred' = [pred EXCEPT ![i] = st.pred]
  /\ color' = [color EXCEPT ![i] = st.color]
  /\ v_w' = [j \in DOMAIN v_w |-> st.v_w]
  /\ q' = [q EXCEPT ![i] = st.q]
  /\ qkey' = [qkey EXCEPT ![i] = st.qkey]
  /\ pc' = [pc EXCEPT ![i] = st.pc]
  /\ u' = [u EXCEPT ![i] = st.u]
  /\ rest' = [rest EXCEPT ![i] = st.rest]
  /\ pops' = [pops EXCEPT ![i] = st.pops]
  /\ viol' = [viol EXCEPT ![i] = st.viol]
  /\ pushcnt' = [pushcnt EXCEPT ![i] = st.pushcnt]
  /\ popcnt' = [popcnt EXCEPT ![i] = st.popcnt]
  /\ g' = g
  /\ UNCHANGED seqvars

\* invocation i moves to st; every other invocation and the graph stay
Put(i, st) ==
  /\ src' = [src EXCEPT ![i] = st.src]
  /\ pred' = [pred EXCEPT ![i] = st.pred]
  /\ color' = [color EXCEPT ![i] = st.color]
  /\ v_w' = [v_w EXCEPT ![i] = st.v_w]
  /\ q' = [q EXCEPT ![i] = st.q]
  /\ qkey' = [qkey EXCEPT ![i] = st.qkey]
  /\ pc' = [pc EXCEPT ![i] = st.pc]
  /\ u' = [u EXCEPT ![i] = st.u]
  /\ rest' = [rest EXCEPT ![i] = st.rest]
  /\ pops' = [pops EXCEPT ![i] = st.pops]
  /\ viol' = [viol EXCEPT ![i] = st.viol]
  /\ pushcnt' = [pushcnt EXCEPT ![i] = st.pushcnt]
  /\ popcnt' = [popcnt EXCEPT ![i] = st.popcnt]
  /\ g' = g
  /\ UNCHANGED seqvars

(***************************************************************************)
(* The weight queue (make_weight_queue): a priority queue of vertices      *)
(* ordered by the weight labeling.  The queue orders a member by the       *)
(* label it had when the member was pushed or last updated.                *)
(***************************************************************************)
\* v becomes a member, ordered by its current label
insert(st, v) ==
  [st EXCEPT !.q = @ \cup {v},
             !.qkey = [m \in st.q \cup {v} |->
                         IF m = v THEN st.v_w[v] ELSE st.qkey[m]]]

\* q.push(v)
push(st, v) == [insert(st, v) EXCEPT !.pushcnt[v] = @ + 1]

\* q.top(): a member no other member is ordered before; which one of
\* several is left to the heap
top(st) == {m \in st.q : \A x \in st.q : st.qkey[m] <= st.qkey[x]}

\* q.pop() of the member m that q.top() returned
pop(st, m) ==
  [st EXCEPT !.q = @ \ {m}, !.qkey = [x \in st.q \ {m} |-> st.qkey[x]],
             !.popcnt[m] = @ + 1]

\* q.update(v): reorders member v after its label dropped.  For a vertex
\* that is no member the behaviour is undefined: the call is ignored, or
\* the stale heap slot puts v back into the queue, or the process dies.
update(st, v) ==
  IF v \in st.q
  THEN {[st EXCEPT !.qkey[v] = st.v_w[v]]}
  ELSE {[st EXCEPT !.viol = TRUE],
        [insert(st, v) EXCEPT !.viol = TRUE],
        [st EXCEPT !.viol = TRUE, !.pc = "abort"]}

(***************************************************************************)
(* prim(g, s, w)                                                           *)
(***************************************************************************)
\* PrimInit with every vertex put into the queue at the start, as in the
\* textbook variant of the algorithm.
PrimInitAll(gr, s) ==
  [src |-> s,
   pred |-> [v \in Vertices(gr) |-> IF v = s THEN s ELSE NilVertex],
   color |-> [v \in Vertices(gr) |-> "gray"],
   v_w |-> [v \in Vertices(gr) |-> WMax],
   q |-> Vertices(gr), qkey |-> [v \in Vertices(gr) |-> WMax],
   pc |-> "loop", u |-> NilVertex,
   rest |-> {}, pops |-> 0, viol |-> FALSE,
   pushcnt |-> [v \in Vertices(gr) |-> 1],
   popcnt |-> [v \in Vertices(gr) |-> 0]]

\* PrimInit without pred(s) = s of line 51.
PrimInitNoPred(gr, s) ==
  LET fresh ==
        [src |-> s,
         pred |-> [v \in Vertices(gr) |-> NilVertex],
         color |-> [v \in Vertices(gr) |-> "white"],
         v_w |-> [v \in Vertices(gr) |-> WMax],
         q |-> {}, qkey |-> << >>, pc |-> "loop", u |-> NilVertex,
         rest |-> {}, pops |-> 0, viol |-> FALSE,
         pushcnt |-> [v \in Vertices(gr) |-> 0],
         popcnt |-> [v \in Vertices(gr) |-> 0]]
      pushed == push(fresh, s)
  IN  [pushed EXCEPT !.color[s] = "gray"]

\* lines 45-52: the labelings, the queue, the source pushed and colored
PrimInit(gr, s) ==
  LET fresh ==
        [src |-> s,
         pred |-> [v \in Vertices(gr) |-> NilVertex],
         color |-> [v \in Vertices(gr) |-> "white"],
         v_w |-> [v \in Vertices(gr) |-> WMax],
         q |-> {}, qkey |-> << >>, pc |-> "loop", u |-> NilVertex,
         rest |-> {}, pops |-> 0, viol |-> FALSE,
         pushcnt |-> [v \in Vertices(gr) |-> 0],
         popcnt |-> [v \in Vertices(gr) |-> 0]]
      pushed == push(fresh, s)
  IN  [pushed EXCEPT !.pred[s] = s, !.color[s] = "gray"]

\* lines 55-57: u = q.top(); q.pop(); the for loop starts
PopMin(gr, st) ==
  {[pop(st, m) EXCEPT !.u = m, !.rest = incident_edges(gr, m),
                      !.pc = "scan", !.pops = @ + 1] : m \in top(st)}

\* Relax with q.push(v) moved before the assignment of v_w(v): the queue
\* orders the new member by its old label.
RelaxPushFirst(st, e) ==
  LET v == opposite(e, st.u)
      visited == [st EXCEPT !.rest = @ \ {e}]
  IN  IF st.color[v] # "black" /\ w(e) < st.v_w[v]
      THEN IF st.color[v] = "white"
           THEN {[push(visited, v) EXCEPT !.v_w[v] = w(e), !.pred[v] = st.u,
                                          !.color[v] = "gray"]}
           ELSE update([visited EXCEPT !.v_w[v] = w(e), !.pred[v] = st.u], v)
      ELSE {visited}

\* Relax without the q.update(v) of line 66.
RelaxNoUpdate(st, e) ==
  LET v == opposite(e, st.u)
      visited == [st EXCEPT !.rest = @ \ {e}]
  IN  IF st.color[v] # "black" /\ w(e) < st.v_w[v]
      THEN LET lowered == [visited EXCEPT !.v_w[v] = w(e), !.pred[v] = st.u]
           IN  IF st.color[v] = "white"
               THEN {[push(lowered, v) EXCEPT !.color[v] = "gray"]}
               ELSE {lowered}
      ELSE {visited}

\* Relax with a vertex colored black when it is pushed.
RelaxPushBlack(st, e) ==
  LET v == opposite(e, st.u)
      visited == [st EXCEPT !.rest = @ \ {e}]
  IN  IF st.color[v] # "black" /\ w(e) < st.v_w[v]
      THEN LET lowered == [visited EXCEPT !.v_w[v] = w(e), !.pred[v] = st.u]
           IN  IF st.color[v] = "white"
               THEN {[push(lowered, v) EXCEPT !.color[v] = "black"]}
               ELSE update(lowered, v)
      ELSE {visited}

\* Relax without the color test of line 59.
RelaxBlackToo(st, e) ==
  LET v == opposite(e, st.u)
      visited == [st EXCEPT !.rest = @ \ {e}]
  IN  IF w(e) < st.v_w[v]
      THEN LET lowered == [visited EXCEPT !.v_w[v] = w(e), !.pred[v] = st.u]
           IN  IF st.color[v] = "white"
               THEN {[push(lowered, v) EXCEPT !.color[v] = "gray"]}
               ELSE IF st.color[v] = "gray" THEN update(lowered, v)
               ELSE {lowered}
      ELSE {visited}

\* Relax with <= in place of < at line 59.
RelaxOrEqual(st, e) ==
  LET v == opposite(e, st.u)
      visited == [st EXCEPT !.rest = @ \ {e}]
  IN  IF st.color[v] # "black" /\ w(e) <= st.v_w[v]
      THEN LET lowered == [visited EXCEPT !.v_w[v] = w(e), !.pred[v] = st.u]
           IN  IF st.color[v] = "white"
               THEN {[push(lowered, v) EXCEPT !.color[v] = "gray"]}
               ELSE update(lowered, v)
      ELSE {visited}

\* lines 58-68: the body of the for loop for edge e
Relax(st, e) ==
  LET v == opposite(e, st.u)
      visited == [st EXCEPT !.rest = @ \ {e}]
  IN  IF st.color[v] # "black" /\ w(e) < st.v_w[v]
      THEN LET lowered == [visited EXCEPT !.v_w[v] = w(e), !.pred[v] = st.u]
           IN  IF st.color[v] = "white"
               THEN {[push(lowered, v) EXCEPT !.color[v] = "gray"]}
               ELSE update(lowered, v)
      ELSE {visited}

\* line 70: color(u) = black
Blacken(st) == [st EXCEPT !.color[st.u] = "black", !.pc = "loop"]

\* lines 54-72: every state one step of an invocation in state st leads to
Steps(gr, st) ==
  IF st.pc = "loop"
  THEN IF st.q = {} THEN {[st EXCEPT !.pc = "done"]} ELSE PopMin(gr, st)
  ELSE IF st.pc = "scan"
  THEN IF st.rest = {} THEN {Blacken(st)}
       ELSE UNION {Relax(st, e) : e \in st.rest}
  ELSE {}

\* lines 43-73: every labeling prim may return when it runs alone from st
RECURSIVE Outcomes(_, _)
Outcomes(gr, st) ==
  IF st.pc = "done" THEN {st.pred}
  ELSE UNION {Outcomes(gr, nx) : nx \in Steps(gr, st)}

(***************************************************************************)
(* Actions: one per step of an invocation.                                 *)
(***************************************************************************)
\* line 54 with the queue not empty, lines 55-57
Pop ==
  \E i \in DOMAIN pc :
    /\ pc[i] = "loop"
    /\ q[i] # {}
    /\ \E nx \in PopMin(g, St(i)) : Put(i, nx)

\* lines 57-69: the for loop visits one more incident edge of u
Examine ==
  \E i \in DOMAIN pc :
    /\ pc[i] = "scan"
    /\ \E e \in rest[i] : \E nx \in Relax(St(i), e) : Put(i, nx)

\* the for loop is over, line 70
Finish ==
  \E i \in DOMAIN pc :
    /\ pc[i] = "scan"
    /\ rest[i] = {}
    /\ Put(i, Blacken(St(i)))

\* line 54 with the queue empty, line 72
Return ==
  \E i \in DOMAIN pc :
    /\ pc[i] = "loop"
    /\ q[i] = {}
    /\ Put(i, [St(i) EXCEPT !.pc = "done"])

\* no sequence algorithm is called while prim runs
SeqIdle ==
  /\ range = << >>
  /\ p = {}
  /\ f = [tag |-> "f", calls |-> 0]
  /\ called = "idle"
  /\ ret = FALSE
  /\ fret = [tag |-> "f", calls |-> 0]
  /\ applied = << >>
  /\ range2 = << >>
  /\ comp = {}
  /\ result = << >>
  /\ val = << >>

Start(gr, ss) ==
  /\ g = gr
  /\ src = [i \in DOMAIN ss |-> ss[i]]
  /\ pred = [i \in DOMAIN ss |-> PrimInit(gr, ss[i]).pred]
  /\ color = [i \in DOMAIN ss |-> PrimInit(gr, ss[i]).color]
  /\ v_w = [i \in DOMAIN ss |-> PrimInit(gr, ss[i]).v_w]
  /\ q = [i \in DOMAIN ss |-> PrimInit(gr, ss[i]).q]
  /\ qkey = [i \in DOMAIN ss |-> PrimInit(gr, ss[i]).qkey]
  /\ pc = [i \in DOMAIN ss |-> PrimInit(gr, ss[i]).pc]
  /\ u = [i \in DOMAIN ss |-> PrimInit(gr, ss[i]).u]
  /\ rest = [i \in DOMAIN ss |-> PrimInit(gr, ss[i]).rest]
  /\ pops = [i \in DOMAIN ss |-> PrimInit(gr, ss[i]).pops]
  /\ viol = [i \in DOMAIN ss |-> PrimInit(gr, ss[i]).viol]
  /\ pushcnt = [i \in DOMAIN ss |-> PrimInit(gr, ss[i]).pushcnt]
  /\ popcnt = [i \in DOMAIN ss |-> PrimInit(gr, ss[i]).popcnt]
  /\ SeqIdle

\* one invocation, on any enumerated graph or scenario, from any source
Init == \E gr \in Graphs \cup Samples : \E s \in Vertices(gr) : Start(gr, <<s>>)

Next == Pop \/ Examine \/ Finish \/ Return

Spec == Init /\ [][Next]_vars

\* two invocations on the same graph, a scenario or an enumerated graph with
\* one edge to spare, from any two sources
PairGraphs == Samples \cup {gr \in Graphs : Cardinality(gr.E) < MaxEdges}

InitPair ==
  \E gr \in PairGraphs : \E s1 \in Vertices(gr) : \E s2 \in Vertices(gr) :
    Start(gr, <<s1, s2>>)

SpecPair == InitPair /\ [][Next]_vars

(***************************************************************************)
(* sequence/algorithm.hpp: the range forwarders.  A range is a finite      *)
(* sequence of values; a unary predicate is the set of values it holds     *)
(* for; a function object carries a tag that tells it from other function  *)
(* objects and the number of calls it has taken.                           *)
(***************************************************************************)
Values == {0, 1}

Ranges == UNION {[1..n -> Values] : n \in 0..MaxLen}

Predicates == SUBSET Values

FunctionObjects == [tag : {"f", "h"}, calls : 0..MaxLen]

\* std::find_if_not(first, last, pred): the first position from i on whose
\* element pred does not hold for, Len(r) + 1 (last) when there is none
RECURSIVE find_if_not(_, _, _)
find_if_not(r, P, i) ==
  IF i > Len(r) THEN i
  ELSE IF r[i] \notin P THEN i
  ELSE find_if_not(r, P, i + 1)

\* std::find_if(first, last, pred): the first position from i on whose
\* element pred holds for, Len(r) + 1 (last) when there is none
RECURSIVE find_if(_, _, _)
find_if(r, P, i) ==
  IF i > Len(r) THEN i
  ELSE IF r[i] \in P THEN i
  ELSE find_if(r, P, i + 1)

\* all_of with the call of line 65 in place of the call of line 44
all_of_any(r, P) == find_if(r, P, 1) # Len(r) + 1

\* lines 39-45: return std::all_of(begin(range), end(range), pred)
all_of(r, P) == find_if_not(r, P, 1) = Len(r) + 1

\* lines 60-66: return std::any_of(begin(range), end(range), pred)
any_of(r, P) == find_if(r, P, 1) # Len(r) + 1

\* lines 81-87: return std::none_of(begin(range), end(range), pred)
none_of(r, P) == find_if(r, P, 1) = Len(r) + 1

\* std::for_each(first, last, f): f is called on every element from the
\* first to the last; the function object that took the calls is returned
RECURSIVE std_for_each(_, _, _)
std_for_each(r, fo, log) ==
  IF r = << >> THEN [f |-> fo, applied |-> log]
  ELSE std_for_each(Tail(r), [fo EXCEPT !.calls = @ + 1],
                    Append(log, Head(r)))

\* lines 102-109: std::for_each runs and its result is dropped; control
\* then reaches the closing brace of a function that returns F without a
\* return statement.  The behaviour is undefined: the caller reads whatever
\* function object the return slot holds, or the process dies.
for_each(r, fo) ==
  LET ran == std_for_each(r, fo, << >>)
  IN  {[applied |-> ran.applied, fret |-> x, called |-> "for_each"] :
         x \in FunctionObjects}
      \cup {[applied |-> ran.applied, fret |-> fo, called |-> "abort"]}

\* operator< of the value type
Less == {pr \in Values \X Values : pr[1] < pr[2]}

\* the strict weak orders of the value type: irreflexive, transitive, and
\* with a transitive equivalence of the values neither is before the other
Comparators ==
  {c \in SUBSET (Values \X Values) :
     /\ \A a \in Values : <<a, a>> \notin c
     /\ \A a \in Values, b \in Values, d \in Values :
          (<<a, b>> \in c /\ <<b, d>> \in c) => <<a, d>> \in c
     /\ \A a \in Values, b \in Values, d \in Values :
          (<<a, b>> \notin c /\ <<b, a>> \notin c /\
           <<b, d>> \notin c /\ <<d, b>> \notin c) =>
            (<<a, d>> \notin c /\ <<d, a>> \notin c)}

\* no element of r is before its left neighbour in the order c
IsSorted(r, c) == \A k \in 1..(Len(r) - 1) : <<r[k + 1], r[k]>> \notin c

\* std::set_difference(first1, last1, first2, last2, result, comp): the
\* merge that copies the elements of r1 that find no partner in r2
RECURSIVE std_set_difference(_, _, _)
std_set_difference(r1, r2, c) ==
  IF r1 = << >> THEN << >>
  ELSE IF r2 = << >> THEN r1
  ELSE IF <<Head(r1), Head(r2)>> \in c
       THEN <<Head(r1)>> \o std_set_difference(Tail(r1), r2, c)
  ELSE IF <<Head(r2), Head(r1)>> \in c
       THEN std_set_difference(r1, Tail(r2), c)
  ELSE std_set_difference(Tail(r1), Tail(r2), c)

\* std::set_symmetric_difference(first1, last1, first2, last2, result,
\* comp): the merge that copies the elements of either range that find no
\* partner in the other
RECURSIVE std_set_symmetric_difference(_, _, _)
std_set_symmetric_difference(r1, r2, c) ==
  IF r1 = << >> THEN r2
  ELSE IF r2 = << >> THEN r1
  ELSE IF <<Head(r1), Head(r2)>> \in c
       THEN <<Head(r1)>> \o std_set_symmetric_difference(Tail(r1), r2, c)
  ELSE IF <<Head(r2), Head(r1)>> \in c
       THEN <<Head(r2)>> \o std_set_symmetric_difference(r1, Tail(r2), c)
  ELSE std_set_symmetric_difference(Tail(r1), Tail(r2), c)

\* lines 988-997, the overload without a comparator: return
\* std::set_difference(begin(range1), end(range1), begin(range2),
\* end(range2), begin(result)); the elements written to result
set_symmetric_difference(r1, r2) == std_set_difference(r1, r2, Less)

\* lines 999-1009, the overload with a comparator: return
\* std::set_symmetric_difference(..., comp)
set_symmetric_difference_comp(r1, r2, c) ==
  std_set_symmetric_difference(r1, r2, c)

\* std::max_element(first, last, comp) from position k on, best being the
\* position of the greatest element so far: a later element replaces it
\* only when comp(*best, *k)
RECURSIVE std_max_element(_, _, _, _)
std_max_element(r, c, best, k) ==
  IF k > Len(r) THEN best
  ELSE IF <<r[best], r[k]>> \in c THEN std_max_element(r, c, k, k + 1)
  ELSE std_max_element(r, c, best, k + 1)

\* std::minmax_element(first, last, comp) from position k on: the first
\* smallest and the last greatest element
RECURSIVE std_minmax_element(_, _, _, _, _)
std_minmax_element(r, c, lo, hi, k) ==
  IF k > Len(r) THEN <<lo, hi>>
  ELSE std_minmax_element(r, c,
         IF <<r[k], r[lo]>> \in c THEN k ELSE lo,
         IF <<r[k], r[hi]>> \notin c THEN k ELSE hi,
         k + 1)

\* lines 1145-1152: max_element(range), with operator<
max_element(r) == std_max_element(r, Less, 1, 2)

\* lines 1154-1161: max_element(range, comp)
max_element_comp(r, c) == std_max_element(r, c, 1, 2)

\* lines 1163-1170: minmax_element(range), with operator<
minmax_element(r) == std_minmax_element(r, Less, 1, 1, 2)

\* lines 1172-1179: minmax_element(range, comp)
minmax_element_comp(r, c) == std_minmax_element(r, c, 1, 1, 2)

\* lines 1210-1215, max(range, comp): return *max_element(range); comp
\* is not handed on
max_comp(r, c) == r[max_element(r)]

\* lines 1224-1229, minmax(range, comp): return *minmax_element(range);
\* comp is not handed on.  The pair of the elements the two iterators
\* point at (the source applies * to the pair of iterators itself).
minmax_comp(r, c) ==
  LET it == minmax_element(r) IN <<r[it[1]], r[it[2]]>>

\* no invocation of prim runs while a sequence algorithm is called
PrimIdle ==
  /\ g = [n |-> 0, E |-> {}]
  /\ src = << >> /\ pred = << >> /\ color = << >> /\ v_w = << >>
  /\ q = << >> /\ qkey = << >> /\ pc = << >> /\ u = << >> /\ rest = << >>
  /\ pops = << >> /\ viol = << >> /\ pushcnt = << >> /\ popcnt = << >>

\* the caller's range, predicate and function object
InitSeq ==
  /\ PrimIdle
  /\ range \in Ranges
  /\ p \in Predicates
  /\ f \in {fo \in FunctionObjects : fo.calls = 0}
  /\ called = "none"
  /\ ret = FALSE
  /\ fret = [tag |-> "f", calls |-> 0]
  /\ applied = << >>
  /\ range2 \in Ranges
  /\ comp \in Comparators
  /\ result = << >>
  /\ val = << >>

AllOf ==
  /\ called = "none"
  /\ called' = "all_of"
  /\ ret' = all_of(range, p)
  /\ UNCHANGED
       <<primvars, range, p, f, fret, applied, range2, comp, result, val>>

AnyOf ==
  /\ called = "none"
  /\ called' = "any_of"
  /\ ret' = any_of(range, p)
  /\ UNCHANGED
       <<primvars, range, p, f, fret, applied, range2, comp, result, val>>

NoneOf ==
  /\ called = "none"
  /\ called' = "none_of"
  /\ ret' = none_of(range, p)
  /\ UNCHANGED
       <<primvars, range, p, f, fret, applied, range2, comp, result, val>>

ForEach ==
  /\ called = "none"
  /\ \E out \in for_each(range, f) :
       /\ called' = out.called
       /\ fret' = out.fret
       /\ applied' = out.applied
  /\ UNCHANGED <<primvars, range, p, f, ret, range2, comp, result, val>>

\* range1 and range2 sorted by operator<
SetSymmetricDifference ==
  /\ called = "none"
  /\ IsSorted(range, Less) /\ IsSorted(range2, Less)
  /\ called' = "set_symmetric_difference"
  /\ result' = set_symmetric_difference(range, range2)
  /\ UNCHANGED
       <<primvars, range, p, f, ret, fret, applied, range2, comp, val>>

\* range1 and range2 sorted by comp
SetSymmetricDifferenceComp ==
  /\ called = "none"
  /\ IsSorted(range, comp) /\ IsSorted(range2, comp)
  /\ called' = "set_symmetric_difference_comp"
  /\ result' = set_symmetric_difference_comp(range, range2, comp)
  /\ UNCHANGED
       <<primvars, range, p, f, ret, fret, applied, range2, comp, val>>

\* a range that is not empty
MaxComp ==
  /\ called = "none"
  /\ range # << >>
  /\ called' = "max_comp"
  /\ val' = <<max_comp(range, comp)>>
  /\ UNCHANGED
       <<primvars, range, p, f, ret, fret, applied, range2, comp, result>>

\* a range that is not empty
MinMaxComp ==
  /\ called = "none"
  /\ range # << >>
  /\ called' = "minmax_comp"
  /\ val' = minmax_comp(range, comp)
  /\ UNCHANGED
       <<primvars, range, p, f, ret, fret, applied, range2, comp, result>>

NextSeq ==
  \/ AllOf \/ AnyOf \/ NoneOf \/ ForEach
  \/ SetSymmetricDifference \/ SetSymmetricDifferenceComp
  \/ MaxComp \/ MinMaxComp

SpecSeq == InitSeq /\ [][NextSeq]_vars

(***************************************************************************)
(* Graph theory the properties are stated with.  None of it is used by     *)
(* the actions.                                                            *)
(***************************************************************************)
RECURSIVE Closure(_, _)
Closure(gr, S) ==
  LET T == S \cup UNION {{opposite(e, x) : e \in incident_edges(gr, x)} : x \in S}
  IN  IF T = S THEN S ELSE Closure(gr, T)

\* the vertices joined to s by a path
Reachable(gr, s) == Closure(gr, {s})

Connected(gr) == Reachable(gr, 1) = Vertices(gr)

DistinctWeights(gr) == \A e1 \in gr.E : \A e2 \in gr.E : e1 # e2 => e1.w # e2.w

RECURSIVE SumW(_)
SumW(T) == IF T = {} THEN 0 ELSE LET e == CHOOSE x \in T : TRUE IN e.w + SumW(T \ {e})

\* the reference: the least total weight of n - 1 edges that join all vertices
SpanningTrees(gr) ==
  {T \in SUBSET gr.E :
     /\ Cardinality(T) = gr.n - 1
     /\ Closure([n |-> gr.n, E |-> T], {1}) = Vertices(gr)}

MSTWeight(gr) ==
  LET ws == {SumW(T) : T \in SpanningTrees(gr)}
  IN  CHOOSE m \in ws : \A x \in ws : m <= x

\* the edges of the graph between x and y
Joining(gr, x, y) == {e \in gr.E : {e.a, e.b} = {x, y}}

MinW(S) == CHOOSE m \in {e.w : e \in S} : \A e \in S : m <= e.w

\* following pr from v arrives at s within fuel steps, never standing still
RECURSIVE ReachesRoot(_, _, _, _)
ReachesRoot(pr, s, v, fuel) ==
  IF v = s THEN TRUE
  ELSE IF fuel = 0 \/ pr[v] \notin DOMAIN pr \/ pr[v] = v THEN FALSE
  ELSE ReachesRoot(pr, s, pr[v], fuel - 1)

\* the edges {pred(v), v}, v # s, are edges of the graph and form a tree
\* that spans it
PredSpans(i) ==
  \A v \in Vertices(g) \ {src[i]} :
    /\ pred[i][v] \in Vertices(g)
    /\ pred[i][v] # v
    /\ Joining(g, pred[i][v], v) # {}
    /\ ReachesRoot(pred[i], src[i], v, g.n)

RECURSIVE PredWeightOver(_, _)
PredWeightOver(i, S) ==
  IF S = {} THEN 0
  ELSE LET v == CHOOSE x \in S : TRUE
       IN  MinW(Joining(g, pred[i][v], v)) + PredWeightOver(i, S \ {v})

\* the total weight of the edges {pred(v), v}, v # s
PredWeight(i) == PredWeightOver(i, Vertices(g) \ {src[i]})

Done(i) == pc[i] = "done"

(***************************************************************************)
(* Properties.                                                             *)
(***************************************************************************)

\* C1: on a connected graph with pairwise distinct edge weights, when prim
\* has returned, the edges {pred(v), v}, v # s, form a spanning tree whose
\* total weight is the weight of the minimum spanning tree (computed by the
\* reference MSTWeight).
C1_DistinctWeightsGiveMST ==
  \A i \in DOMAIN pc :
    (Done(i) /\ Connected(g) /\ DistinctWeights(g)) =>
      (PredSpans(i) /\ PredWeight(i) = MSTWeight(g))

\* C2: on a connected graph with some equal edge weights, whatever member
\* the queue hands out among equals, the edges {pred(v), v}, v # s, span the
\* graph and their total weight is the minimum spanning tree weight.
C2_TiedWeightsGiveMSTWeight ==
  \A i \in DOMAIN pc :
    (Done(i) /\ Connected(g) /\ ~DistinctWeights(g)) =>
      (PredSpans(i) /\ PredWeight(i) = MSTWeight(g))

\* C3: when prim has returned, pred is a tree rooted at s over exactly the
\* vertices reachable from s: pred(v) # nil iff v is reachable, s is the only
\* vertex that is its own predecessor, and following pred from a reachable
\* vertex ends at s without visiting a vertex twice.
C3_PredIsTreeOverReachable ==
  \A i \in DOMAIN pc :
    Done(i) =>
      \A v \in Vertices(g) :
        /\ (pred[i][v] # NilVertex) <=> (v \in Reachable(g, src[i]))
        /\ (pred[i][v] = v) <=> (v = src[i])
        /\ (v \in Reachable(g, src[i])) => ReachesRoot(pred[i], src[i], v, g.n)

\* C4: in every state of a run, a vertex outside the source's connected
\* component is white, has pred = nil and weight = the largest weight value,
\* and is not in the queue.
C4_OutsideComponentUntouched ==
  \A i \in DOMAIN pc :
    \A v \in Vertices(g) \ Reachable(g, src[i]) :
      /\ color[i][v] = "white"
      /\ pred[i][v] = NilVertex
      /\ v_w[i][v] = WMax
      /\ v \notin q[i]

\* C4's case: the run on the two-component scenario from A has returned
\* with pred(B) = A and pred(C) = pred(D) = nil.
C4_Witness ==
  /\ g = Scenario2
  /\ src[1] = 1
  /\ Done(1)
  /\ pred[1] = <<1, 1, NilVertex, NilVertex>>
  /\ color[1][3] = "white" /\ color[1][4] = "white"

\* C5: the run never dies, pops at most |V| times, and is over only with
\* the queue empty.
C5_TerminatesWithinVPops ==
  \A i \in DOMAIN pc :
    /\ pc[i] # "abort"
    /\ pops[i] <= g.n
    /\ Done(i) => q[i] = {}

\* the step is a q.pop() of invocation i
PopStep(i) == pops'[i] = pops[i] + 1

\* the members of smallest current weight label before the step
Lightest(i) == {m \in q[i] : \A x \in q[i] : v_w[i][m] <= v_w[i][x]}

\* C6: two runs of prim on the same graph with pairwise distinct edge
\* weights and the same source return the same predecessor labeling.
C6_Deterministic ==
  (Done(1) /\ Done(2) /\ src[1] = src[2] /\ DistinctWeights(g)) =>
    pred[1] = pred[2]

\* C6's case: both runs on the distinct-weight triangle from vertex 1 have
\* returned, the lighter edge 2-3 having replaced 1-2.
C6_Witness ==
  /\ g = Triangle
  /\ src = <<1, 1>>
  /\ Done(1) /\ Done(2)
  /\ pred[1] = <<1, 3, 1>>
  /\ pred[2] = <<1, 3, 1>>

\* C7: no step writes the source's weight label or predecessor label, and
\* in the result pred(s) = s.
C7_SourceNeverRelaxed ==
  [][\A i \in DOMAIN pc :
       /\ v_w'[i][src[i]] = v_w[i][src[i]]
       /\ pred'[i][src[i]] = pred[i][src[i]]
       /\ pc'[i] = "done" => pred'[i][src[i]] = src[i]]_vars

\* C8: every pop removes exactly one member of the queue, and that member's
\* current weight label is less than or equal to that of every member.
C8_PopsMinimum ==
  [][\A i \in DOMAIN pc :
       PopStep(i) =>
         /\ u'[i] \in q[i]
         /\ q'[i] = q[i] \ {u'[i]}
         /\ \A m \in q[i] : v_w[i][u'[i]] <= v_w[i][m]]_vars

\* C8's case: on the star from vertex 1, vertex 3, whose label dropped from
\* 3 to 0 while it was queued, has been popped ahead of vertex 4 (label 2).
C8_Witness ==
  /\ g = Star
  /\ src[1] = 1
  /\ pc[1] = "scan"
  /\ u[1] = 3
  /\ v_w[1][3] = 0
  /\ q[1] = {4}
  /\ pops[1] = 3

C12_ForEachAppliesInOrderAndReturnsF ==
  /\ called # "abort"
  /\ called = "for_each" =>
       /\ applied = range
       /\ fret.tag = f.tag

\* the edges with one endpoint in the black set and the other outside it
Crossing(i) ==
  {e \in g.E : (color[i][e.a] = "black") # (color[i][e.b] = "black")}

\* C13 (cut property): at every pop of a vertex u other than the source,
\* v_w(u) is the least weight of the edges that cross from the black set to
\* the rest of the graph, and an edge between pred(u) and u is a crossing
\* edge of that weight.
C13_CutProperty ==
  [][\A i \in DOMAIN pc :
       (PopStep(i) /\ u'[i] # src[i]) =>
         /\ Crossing(i) # {}
         /\ v_w[i][u'[i]] = MinW(Crossing(i))
         /\ \E e \in Crossing(i) :
              /\ {e.a, e.b} = {pred[i][u'[i]], u'[i]}
              /\ e.w = MinW(Crossing(i))]_vars

\* a color stays, or moves white to gray, or gray to black
Forward(c, d) ==
  \/ c = d
  \/ c = "white" /\ d = "gray"
  \/ c = "gray" /\ d = "black"

\* C14: in every step of every run the color of every vertex stays the
\* same or moves white to gray or gray to black; it never moves back and
\* never moves from white to black in one step.
C14_ColorsMoveForward ==
  [][\A i \in DOMAIN pc : \A v \in Vertices(g) :
       Forward(color[i][v], color'[i][v])]_vars

\* C14's case: on scenario 1 from A, A and B have gone white, gray, black
\* and C and D wait gray in the queue.
C14_Witness ==
  /\ g = Scenario1
  /\ src[1] = 1
  /\ pc[1] = "loop"
  /\ color[1] = <<"black", "black", "gray", "gray">>
  /\ q[1] = {3, 4}

\* C15: once a vertex is black, no step changes its weight label or its
\* predecessor label, pushes it, or has the queue take it in or reorder it.
C15_BlackIsFinal ==
  [][\A i \in DOMAIN pc : \A v \in Vertices(g) :
       color[i][v] = "black" =>
         /\ v_w'[i][v] = v_w[i][v]
         /\ pred'[i][v] = pred[i][v]
         /\ pushcnt'[i][v] = pushcnt[i][v]
         /\ v \in q'[i] => (v \in q[i] /\ qkey'[i][v] = qkey[i][v])]_vars

\* C15's case: on the triangle from vertex 1, vertex 3 has examined its
\* edge to the black vertex 1, whose weight 2 is below v_w(1), and vertex 1
\* has kept its labels.
C15_Witness ==
  /\ g = Triangle
  /\ src[1] = 1
  /\ pc[1] = "scan"
  /\ u[1] = 3
  /\ Edge(1, 3, 2) \notin rest[1]
  /\ color[1][1] = "black"
  /\ v_w[1][1] = WMax
  /\ pred[1][1] = 1

\* the gray vertices of invocation i
Gray(i) == {v \in Vertices(g) : color[i][v] = "gray"}

\* C16: in every state of a run the members of the queue are exactly the
\* gray vertices, and every gray vertex other than the source has a weight
\* label below the largest weight value and a predecessor that is neither
\* nil nor the vertex itself.
C16_QueueIsGraySet ==
  \A i \in DOMAIN pc :
    /\ q[i] = Gray(i)
    /\ \A v \in Gray(i) \ {src[i]} :
         /\ v_w[i][v] < WMax
         /\ pred[i][v] \notin {NilVertex, v}

\* the step is one turn of the for loop of invocation i
ExamineStep(i) == pc[i] = "scan" /\ rest'[i] # rest[i]

\* C17: whenever an edge incident to the popped vertex u is examined, u is
\* already black.
C17_BlackBeforeScan ==
  [][\A i \in DOMAIN pc :
       ExamineStep(i) => color[i][u[i]] = "black"]_vars

\* C18: a turn of the for loop on a self-loop of u leaves the weight,
\* predecessor and color of u unchanged, pushes nothing, and has the queue
\* neither take u in nor reorder anything nor be called out of contract,
\* whatever the weight of the self-loop.
C18_SelfLoopIsNoOp ==
  [][\A i \in DOMAIN pc : \A e \in rest[i] \ rest'[i] :
       (ExamineStep(i) /\ opposite(e, u[i]) = u[i]) =>
         /\ v_w'[i][u[i]] = v_w[i][u[i]]
         /\ pred'[i][u[i]] = pred[i][u[i]]
         /\ color'[i][u[i]] = color[i][u[i]]
         /\ pushcnt'[i] = pushcnt[i]
         /\ q'[i] = q[i]
         /\ qkey'[i] = qkey[i]
         /\ viol'[i] = viol[i]
         /\ pc'[i] # "abort"]_vars

\* C19: no step calls q.update for a vertex that is no member; the queue
\* reorders a member only in a step that has strictly lowered its weight
\* label; and at every pop the queue orders every member by its current
\* weight label (every lowering has been followed by q.update).
C19_UpdateContract ==
  [][\A i \in DOMAIN pc :
       /\ ~viol'[i]
       /\ \A v \in q[i] \cap q'[i] :
            qkey'[i][v] # qkey[i][v] => v_w'[i][v] < v_w[i][v]
       /\ PopStep(i) => \A m \in q[i] : qkey[i][m] = v_w[i][m]]_vars

\* C20: after every step every vertex has been pushed at most once and
\* popped at most once and no more often than it was pushed, and a step
\* that pushes v finds v white and no member of the queue.
C20_PushedAndPoppedOnce ==
  [][\A i \in DOMAIN pc : \A v \in Vertices(g) :
       /\ pushcnt'[i][v] <= 1
       /\ popcnt'[i][v] <= 1
       /\ popcnt'[i][v] <= pushcnt'[i][v]
       /\ pushcnt'[i][v] > pushcnt[i][v] =>
            (color[i][v] = "white" /\ v \notin q[i])]_vars

\* C21: a turn of the for loop on an edge e between u and v changes state
\* only when v is not black and w(e) < v_w(v); it then sets v_w(v) = w(e)
\* and pred(v) = u and leaves the weight, predecessor and color of every
\* other vertex alone.  When v is black or w(e) >= v_w(v), the labelings,
\* the colors and the queue are left unchanged.
C21_RelaxFrame ==
  [][\A i \in DOMAIN pc : \A e \in rest[i] \ rest'[i] :
       ExamineStep(i) =>
         LET v == opposite(e, u[i])
         IN  IF color[i][v] # "black" /\ w(e) < v_w[i][v]
             THEN /\ v_w'[i][v] = w(e)
                  /\ pred'[i][v] = u[i]
                  /\ \A x \in Vertices(g) \ {v} :
                       /\ v_w'[i][x] = v_w[i][x]
                       /\ pred'[i][x] = pred[i][x]
                       /\ color'[i][x] = color[i][x]
             ELSE /\ v_w'[i] = v_w[i]
                  /\ pred'[i] = pred[i]
                  /\ color'[i] = color[i]
                  /\ q'[i] = q[i]
                  /\ qkey'[i] = qkey[i]]_vars

\* C21's case: on the star from vertex 1, vertex 2 has examined its edge of
\* weight 0 to the gray vertex 3, whose label dropped from 3 to 0 and whose
\* predecessor became 2; vertex 4 kept its labels.
C21_Witness ==
  /\ g = Star
  /\ src[1] = 1
  /\ pc[1] = "scan"
  /\ u[1] = 2
  /\ Edge(2, 3, 0) \notin rest[1]
  /\ v_w[1][3] = 0 /\ pred[1][3] = 2
  /\ v_w[1][4] = 2 /\ pred[1][4] = 1

\* C22: when the main loop is first entered, the queue holds exactly the
\* source, the source is gray with pred(source) = source, and every other
\* vertex is white with pred = nil and weight = the largest weight value.
C22_InitialState ==
  \A i \in DOMAIN pc :
    (pc[i] = "loop" /\ pops[i] = 0) =>
      /\ q[i] = {src[i]}
      /\ color[i][src[i]] = "gray"
      /\ pred[i][src[i]] = src[i]
      /\ \A v \in Vertices(g) \ {src[i]} :
           /\ color[i][v] = "white"
           /\ pred[i][v] = NilVertex
           /\ v_w[i][v] = WMax

\* C22's case: prim on scenario 1 from A is about to evaluate the loop
\* condition for the first time.
C22_Witness ==
  /\ g = Scenario1
  /\ src[1] = 1
  /\ pc[1] = "loop"
  /\ pops[1] = 0
  /\ q[1] = {1}
  /\ pred[1] = <<1, NilVertex, NilVertex, NilVertex>>

\* the graph without its edges of the largest weight value
Lighter(gr) == [n |-> gr.n, E |-> {e \in gr.E : w(e) # WMax}]

\* C23: when prim has returned, every vertex that is reachable from the
\* source, and reachable only through edges of the largest weight value, is
\* black and has a predecessor other than nil.
C23_MaxWeightEdgeDiscovers ==
  \A i \in DOMAIN pc :
    Done(i) =>
      \A v \in Reachable(g, src[i]) \ Reachable(Lighter(g), src[i]) :
        /\ color[i][v] = "black"
        /\ pred[i][v] # NilVertex

NoSelfLoops(gr) == \A e \in gr.E : e.a # e.b

\* C24: on a connected graph with pairwise distinct edge weights and no
\* self-loop, the labeling prim has returned is the only labeling any order
\* of visiting the incident edges and any choice of the queue among equal
\* members can lead to.
C24_OrderIndependent ==
  \A i \in DOMAIN pc :
    (Done(i) /\ Connected(g) /\ DistinctWeights(g) /\ NoSelfLoops(g)) =>
      Outcomes(g, PrimInit(g, src[i])) = {pred[i]}

\* C24's case: prim on the star from vertex 1, whose three edges at vertex
\* 1 can be visited in six orders, has returned pred(2) = 1, pred(3) = 2,
\* pred(4) = 1.
C24_Witness ==
  /\ g = Star
  /\ src[1] = 1
  /\ Done(1)
  /\ pred[1] = <<1, 1, 2, 1>>

\* the edges between v and a black vertex
ToBlack(i, v) ==
  {e \in incident_edges(g, v) : color[i][opposite(e, v)] = "black"}

\* C25: no step raises a weight label; at every evaluation of the loop
\* condition (the step that follows it is the pop or the return) every
\* gray vertex v has a black predecessor joined to v by an
\* edge of the graph and v_w(v) is the least weight of the edges between v
\* and a black vertex; and every vertex other than the source is popped
\* after its final predecessor: its predecessor is black when it is popped
\* and does not change afterwards.
C25_WeightsFallAndGrayIsFrontier ==
  [][\A i \in DOMAIN pc : \A v \in Vertices(g) :
       /\ v_w'[i][v] <= v_w[i][v]
       /\ (pc[i] = "loop" /\ color[i][v] = "gray") =>
            /\ pred[i][v] \in Vertices(g)
            /\ color[i][pred[i][v]] = "black"
            /\ Joining(g, pred[i][v], v) # {}
            /\ ToBlack(i, v) # {}
            /\ v_w[i][v] = MinW(ToBlack(i, v))
       /\ (PopStep(i) /\ u'[i] = v /\ v # src[i]) =>
            /\ pred[i][v] \in Vertices(g)
            /\ color[i][pred[i][v]] = "black"
       /\ (popcnt[i][v] > 0 /\ v # src[i]) => pred'[i][v] = pred[i][v]]_vars

\* the number of positions of r that hold x
RECURSIVE Count(_, _)
Count(r, x) ==
  IF r = << >> THEN 0
  ELSE (IF Head(r) = x THEN 1 ELSE 0) + Count(Tail(r), x)

\* C26: for ranges sorted by operator<, set_symmetric_difference(range1,
\* range2, result) without a comparator writes what the comparator overload
\* writes for operator<: of every value as many copies as one range holds
\* more than the other, in ascending order.
C26_SymmetricDifferenceWithoutComparator ==
  called = "set_symmetric_difference" =>
    /\ result = set_symmetric_difference_comp(range, range2, Less)
    /\ IsSorted(result, Less)
    /\ \A x \in Values :
         \/ Count(result, x) + Count(range2, x) = Count(range, x)
         \/ Count(result, x) + Count(range, x) = Count(range2, x)

\* C27: for a range that is not empty and a strict weak order comp,
\* max(range, comp) returns the element max_element(range, comp) points at,
\* which no element is after in comp, and minmax(range, comp) returns the
\* elements minmax_element(range, comp) points at: one that is after no
\* element and one that no element is after.
C27_ComparatorDeterminesMaxAndMinmax ==
  /\ called = "max_comp" =>
       /\ val[1] = range[max_element_comp(range, comp)]
       /\ \A k \in DOMAIN range : <<val[1], range[k]>> \notin comp
  /\ called = "minmax_comp" =>
       /\ val[1] = range[minmax_element_comp(range, comp)[1]]
       /\ val[2] = range[minmax_element_comp(range, comp)[2]]
       /\ \A k \in DOMAIN range : <<range[k], val[1]>> \notin comp
       /\ \A k \in DOMAIN range : <<val[2], range[k]>> \notin comp

====
